---- MODULE Spec2Model ----
(***************************************************************************)
(* Model of the internship recommender:                                    *)
(*   - src/app.py: get_best_matches (embedding filter, top-K, the call of  *)
(*     the generative model, the parsing of its reply) and the             *)
(*     "Find My Top 5 Matches" handler that joins, sorts and shows the     *)
(*     matches;                                                            *)
(*   - src/update_internships.py: the insert-or-update of scraped          *)
(*     listings keyed by their link.                                       *)
(*                                                                         *)
(* Text is a sequence of tokens.  A token is one character, except that a  *)
(* JSON object, number or string literal is a single token: its first and  *)
(* last characters ('{' '}', a digit, '"') are in none of the character    *)
(* sets the code strips, so str.strip never cuts into one.                 *)
(***************************************************************************)
EXTENDS Integers, Sequences, FiniteSets, TLC

VARIABLES
    \* ---- the reply-parsing step of get_best_matches (app.py 150-156)
    body,           \* the payload of the model's reply
    tag,            \* the language tag of the fenced form of the reply
    plainResult,    \* outcome of the parsing step on the payload alone
    fencedResult,   \* outcome of the parsing step on the fenced payload
    blockedResult,  \* outcome of the parsing step when response.text raises
    \* ---- the document store (the Firestore collection "internships")
    db,             \* set of documents [id, link, title, created_at]
    \* ---- one run of the page of app.py
    pc,             \* where the run is
    caller,         \* "handler": the button handler; "direct": another caller
    resume_text,    \* the extracted resume text
    internships,    \* the corpus handed to get_best_matches (document ids)
    top_k_filter,   \* the K handed to get_best_matches
    scores,         \* util.cos_sim(resume_emb, corpus_emb)[0]
    top_indices,    \* torch.topk(...).indices, as far as selected
    encodeCalls,    \* calls of embedder.encode in this run
    generateCalls,  \* calls of model.generate_content in this run
    matches,        \* what get_best_matches returned
    raisedBy,       \* the call whose exception left get_best_matches or the handler
    merged,         \* the rows the handler renders
    ui,             \* what the handler shows
    \* ---- update_internships
    now,            \* datetime.now(), a logical clock
    nextId,         \* the next auto-generated document id
    seen,           \* sightings processed so far
    log             \* the last line printed for a sighting

parseVars == <<body, tag, plainResult, fencedResult, blockedResult>>
runVars == <<pc, caller, resume_text, internships, top_k_filter, scores,
             top_indices, encodeCalls, generateCalls, matches, raisedBy,
             merged, ui>>
ingestVars == <<now, nextId, seen, log>>
vars == <<parseVars, db, runVars, ingestVars>>

\* ------------------------------------------------------------------ bounds
\* Longest JSON array (in elements) among the enumerated replies.
MaxArr == 2
\* Most listings in the store when the page runs.
MaxCorpus == 3
\* Similarity scores are 0..MaxSim (cosine similarity, scaled).
MaxSim == 2
\* Distinct links the scraper may sight.
MaxLinks == 2
\* Sightings processed in one behaviour.
MaxSightings == 3

\* ------------------------------------------------------------------ program constants
\* def get_best_matches(resume_text, internships, top_k_filter=30)
TopKDefault == 30
\* "return the TOP 5 matches", "Top 5 Recommended Internships"
TopN == 5

\* ------------------------------------------------------------------ tokens
Whitespace == {" ", "\n"}
\* str.strip(fence + "json") strips any of these characters, not the prefix.
FenceJsonChars == {"BQ", "j", "s", "o", "n"}
\* str.strip(fence)
FenceChars == {"BQ"}
\* The backquote character.
Backquote == "BQ"
FenceMark == <<Backquote, Backquote, Backquote>>

\* JSON object literals the model may emit, by name.
ObjTokens == {"oA95", "oC70", "oB70", "oZ50", "oA150", "oBneg", "oNoScore",
              "oNoId", "oNoReason", "{}"}
NumTokens == {"0", "7"}
StrTokens == {"'x'"}
ScalarTokens == ObjTokens \cup NumTokens \cup StrTokens
NullText == <<"n", "u", "l", "l">>

\* ------------------------------------------------------------------ Python values
PyList(items) == [kind |-> "list", items |-> items]
PyScalar(tok) ==
    [kind |-> IF tok \in ObjTokens THEN "dict"
              ELSE IF tok \in NumTokens THEN "int" ELSE "str",
     items |-> <<tok>>]
PyNone == [kind |-> "none", items |-> <<>>]
EmptyList == PyList(<<>>)

\* bool(v), as "if matches:" evaluates it.
Truthy(v) ==
    CASE v.kind = "list" -> v.items # <<>>
      [] v.kind = "dict" -> v.items # <<"{}">>
      [] v.kind = "int"  -> v.items # <<"0">>
      [] v.kind = "str"  -> TRUE
      [] OTHER -> FALSE

\* ------------------------------------------------------------------ str methods
RECURSIVE lstrip(_, _)
lstrip(text, chars) ==
    IF text # <<>> /\ Head(text) \in chars THEN lstrip(Tail(text), chars) ELSE text

RECURSIVE rstrip(_, _)
rstrip(text, chars) ==
    IF text # <<>> /\ text[Len(text)] \in chars
    THEN rstrip(SubSeq(text, 1, Len(text) - 1), chars)
    ELSE text

strip(text, chars) == rstrip(lstrip(text, chars), chars)

startswith(text, prefix) ==
    Len(text) >= Len(prefix) /\ SubSeq(text, 1, Len(prefix)) = prefix

\* ------------------------------------------------------------------ json.loads
NotWhitespace(tok) == tok \notin Whitespace

\* The elements between '[' and ']': value (',' value)*, or nothing.
ArrayItemsOk(inner) ==
    \/ inner = <<>>
    \/ /\ Len(inner) % 2 = 1
       /\ \A i \in 1..Len(inner) :
            IF i % 2 = 1 THEN inner[i] \in ScalarTokens ELSE inner[i] = ","

ArrayItems(inner) ==
    [i \in 1..((Len(inner) + 1) \div 2) |-> inner[2 * i - 1]]

\* json.loads(text): [ok |-> the text is JSON, value |-> its value].
\* Arrays are flat (their elements are literals), as every enumerated reply is.
json_loads(text) ==
    LET t == SelectSeq(text, NotWhitespace)
        bad == [ok |-> FALSE, value |-> PyNone]
    IN  IF t = <<>> THEN bad
        ELSE IF Len(t) = 1 /\ t[1] \in ScalarTokens
             THEN [ok |-> strip(text, Whitespace) = t, value |-> PyScalar(t[1])]
        ELSE IF t = NullText
             THEN [ok |-> strip(text, Whitespace) = t, value |-> PyNone]
        ELSE IF /\ Len(t) >= 2
                /\ t[1] = "["
                /\ t[Len(t)] = "]"
                /\ ArrayItemsOk(SubSeq(t, 2, Len(t) - 1))
             THEN [ok |-> TRUE,
                   value |-> PyList(ArrayItems(SubSeq(t, 2, Len(t) - 1)))]
        ELSE bad

\* ------------------------------------------------------------------ the parsing step
\* A reply of the generative model: response.text either is a text or raises
\* (a blocked or empty candidate).
TextResponse(text) == [has_text |-> TRUE, text |-> text]
BlockedResponse == [has_text |-> FALSE, text |-> <<>>]

Returned(v) == [raised |-> FALSE, value |-> v]
Raised == [raised |-> TRUE, value |-> PyNone]

\* No fence handling at all.
unfence_missing(text) == text

\* if text.startswith(fence): text = text.strip(fence + "json").strip(fence)
unfence(text) ==
    IF startswith(text, FenceMark)
    THEN strip(strip(text, FenceJsonChars), FenceChars)
    ELSE text

\* The parsing step without its except clause: the error propagates.
parse_response_no_except(response) ==
    IF ~response.has_text THEN Raised
    ELSE LET r == json_loads(unfence(strip(response.text, Whitespace)))
         IN  IF r.ok THEN Returned(r.value) ELSE Raised

\* try: text = response.text.strip(); ...; return json.loads(text)
\* except Exception: return []
parse_response(response) ==
    IF ~response.has_text THEN Returned(EmptyList)
    ELSE LET r == json_loads(unfence(strip(response.text, Whitespace)))
         IN  IF r.ok THEN Returned(r.value) ELSE Returned(EmptyList)

\* ------------------------------------------------------------------ replies
SeqsUpTo(S, n) == UNION {[1..k -> S] : k \in 0..n}

\* Elements of the enumerated arrays.
ArrElems == {"oA95", "oC70", "7"}

ArrayText(items) ==
    <<"[">> \o [i \in 1..(IF items = <<>> THEN 0 ELSE 2 * Len(items) - 1) |->
                  IF i % 2 = 1 THEN items[(i + 1) \div 2] ELSE ","] \o <<"]">>

ValidArrays == {ArrayText(s) : s \in SeqsUpTo(ArrElems, MaxArr)}
\* An array cut before its ']' or before its last element.
TruncatedArrays ==
    {SubSeq(a, 1, Len(a) - 1) : a \in ValidArrays}
    \cup {SubSeq(a, 1, Len(a) - 2) : a \in {x \in ValidArrays : Len(x) >= 4}}
\* An array with a comma before its ']'.
TrailingCommaArrays ==
    {SubSeq(a, 1, Len(a) - 1) \o <<",", "]">> : a \in {x \in ValidArrays : Len(x) >= 3}}
ProseTexts ==
    {<<"n", "o", "t", " ", "j", "s", "o", "n">>, <<"s", "o", "n">>, <<"p">>}
MalformedTexts == ProseTexts \cup TruncatedArrays \cup TrailingCommaArrays
\* JSON whose top-level value is no array.
NonArrayTexts == {<<t>> : t \in ScalarTokens} \cup {NullText}

Bodies == ValidArrays \cup MalformedTexts \cup NonArrayTexts

JsonTag == <<"j", "s", "o", "n">>
Tags == {<<>>, JsonTag, <<"j", "s">>, <<"p", "y", "t", "h", "o", "n">>,
         <<"J", "S", "O", "N">>, <<"p">>}

\* opening fence + tag + newline + body + newline + closing fence
Fence(t, b) == FenceMark \o t \o <<"\n">> \o b \o <<"\n">> \o FenceMark

NotRun == [raised |-> FALSE, value |-> [kind |-> "pending", items |-> <<>>]]

\* ------------------------------------------------------------------ the store
\* A document of the collection.  Ids and links are numbers.
Doc(id, link, title, created_at) ==
    [id |-> id, link |-> link, title |-> title, created_at |-> created_at]

Links == 1..MaxLinks
Titles == {1, 2}

\* A store of n listings, the i-th created at time i.
Store(n) == {Doc(i, i, 1, i) : i \in 1..n}

\* db.collection("internships").order_by("created_at", DESCENDING).stream(),
\* each document's id attached; the corpus is the list of these records.
RECURSIVE get_internships(_)
get_internships(store) ==
    IF store = {} THEN <<>>
    ELSE LET d == CHOOSE x \in store : \A y \in store :
                     \/ y.created_at < x.created_at
                     \/ (y.created_at = x.created_at /\ y.id <= x.id)
         IN  <<d.id>> \o get_internships(store \ {d})

\* ------------------------------------------------------------------ the model's entries
\* The fields of each JSON object literal: job_id (1, 2, 3 are listings A, B,
\* C; 99 is an id of no listing), match_score and reason, each present or not.
Entry(id, score, has_id, has_score, has_reason) ==
    [job_id |-> id, match_score |-> score, has_id |-> has_id,
     has_score |-> has_score, has_reason |-> has_reason]

Obj(tok) ==
    CASE tok = "oA95"      -> Entry(1, 95, TRUE, TRUE, TRUE)
      [] tok = "oC70"      -> Entry(3, 70, TRUE, TRUE, TRUE)
      [] tok = "oB70"      -> Entry(2, 70, TRUE, TRUE, TRUE)
      [] tok = "oZ50"      -> Entry(99, 50, TRUE, TRUE, TRUE)
      [] tok = "oA150"     -> Entry(1, 150, TRUE, TRUE, TRUE)
      [] tok = "oBneg"     -> Entry(2, -5, TRUE, TRUE, TRUE)
      [] tok = "oNoScore"  -> Entry(1, 0, TRUE, FALSE, TRUE)
      [] tok = "oNoId"     -> Entry(0, 60, FALSE, TRUE, TRUE)
      [] tok = "oNoReason" -> Entry(2, 30, TRUE, TRUE, FALSE)
      [] OTHER             -> Entry(0, 0, FALSE, FALSE, FALSE)

\* ------------------------------------------------------------------ replies of the model
LongArray == [i \in 1..(TopN + 1) |-> IF i % 2 = 1 THEN "oC70" ELSE "oA95"]

ReplyArrays ==
    {<<"oA95", "oC70">>, <<"oC70", "oA95">>, <<"oZ50", "oA95">>, <<"oA150">>,
     <<"oBneg", "oB70">>, <<"oNoScore", "oC70">>, <<"oNoId", "oA95">>,
     <<"oNoReason">>, <<"oNoScore">>, <<"oNoId">>, <<"7">>, <<>>, LongArray}

ReplyTexts ==
    {ArrayText(a) : a \in ReplyArrays}
    \cup {<<"oA95">>, <<"{}">>, <<"7">>, <<"0">>, <<"'x'">>, NullText}
    \cup {<<"n", "o", "t", " ", "j", "s", "o", "n">>, <<"[", "oA95", ",">>}
    \cup {Fence(JsonTag, ArrayText(<<"oA95", "oC70">>)),
          Fence(<<"p", "y", "t", "h", "o", "n">>, ArrayText(<<"oA95", "oC70">>))}

Replies == {TextResponse(t) : t \in ReplyTexts} \cup {BlockedResponse}

Resumes == {"", "cv"}

\* ------------------------------------------------------------------ get_best_matches
Min(a, b) == IF a < b THEN a ELSE b

\* The guard that never short-circuits.
corpus_is_empty_never(corpus) == FALSE

\* if not internships: return []
corpus_is_empty(corpus) == corpus = <<>>

\* k=min(top_k_filter, len(scores))
topk_k(k, n) == Min(k, n)

\* Any index not yet selected.
topk_candidates_any(sc, chosen) ==
    {i \in 1..Len(sc) : \A j \in 1..Len(chosen) : chosen[j] # i}

\* torch.topk: the next index is one of the best not yet selected (which of
\* several equal scores comes first is not specified).
topk_candidates(sc, chosen) ==
    LET rest == {i \in 1..Len(sc) : \A j \in 1..Len(chosen) : chosen[j] # i}
    IN  {i \in rest : \A j \in rest : sc[j] <= sc[i]}

\* filtered_internships = [internships[i.item()] for i in top_results.indices]
filtered_internships == [i \in 1..Len(top_indices) |-> internships[top_indices[i]]]

\* The entry of get_best_matches, up to the first call of the embedder.
Enter(who, resume, corpus, k) ==
    /\ caller' = who
    /\ resume_text' = resume
    /\ internships' = corpus
    /\ top_k_filter' = k
    /\ IF corpus_is_empty(corpus)
       THEN /\ matches' = EmptyList
            /\ pc' = "returned"
       ELSE /\ matches' = matches
            /\ pc' = "encode"
    /\ UNCHANGED <<scores, top_indices, encodeCalls, generateCalls, raisedBy,
                   merged, ui>>

\* if uploaded_file: resume_text = extract_text_from_pdf(uploaded_file)
UploadResume ==
    /\ pc = "idle"
    /\ \E r \in Resumes : resume_text' = r
    /\ pc' = "uploaded"
    /\ UNCHANGED <<caller, internships, top_k_filter, scores, top_indices,
                   encodeCalls, generateCalls, matches, raisedBy, merged, ui>>
    /\ UNCHANGED <<parseVars, db, ingestVars>>

\* The button: internships = get_internships().to_dict(orient="records");
\* matches = get_best_matches(resume_text, internships)
ClickFind ==
    /\ pc = "uploaded"
    /\ Enter("handler", resume_text, get_internships(db), TopKDefault)
    /\ UNCHANGED <<parseVars, db, ingestVars>>

\* get_best_matches called with a K of the caller's choice.
CallDirect ==
    /\ pc = "idle"
    /\ \E r \in Resumes, k \in 1..(MaxCorpus + 1) :
           Enter("direct", r, get_internships(db), k)
    /\ UNCHANGED <<parseVars, db, ingestVars>>

\* resume_emb = embedder.encode(resume_text); corpus_emb = embedder.encode(corpus);
\* scores = util.cos_sim(resume_emb, corpus_emb)[0]
Encode ==
    /\ pc = "encode"
    /\ encodeCalls' = encodeCalls + 2
    /\ \E sc \in [1..Len(internships) -> 0..MaxSim] : scores' = sc
    /\ pc' = "topk"
    /\ UNCHANGED <<caller, resume_text, internships, top_k_filter, top_indices,
                   generateCalls, matches, raisedBy, merged, ui>>
    /\ UNCHANGED <<parseVars, db, ingestVars>>

\* The first call of the embedder raises: nothing in get_best_matches catches it.
EncodeFails ==
    /\ pc = "encode"
    /\ encodeCalls' = encodeCalls + 1
    /\ raisedBy' = "encode"
    /\ pc' = "raised"
    /\ UNCHANGED <<caller, resume_text, internships, top_k_filter, scores,
                   top_indices, generateCalls, matches, merged, ui>>
    /\ UNCHANGED <<parseVars, db, ingestVars>>

\* torch.topk selects its next index.
TopkSelect ==
    /\ pc = "topk"
    /\ topk_k(top_k_filter, Len(scores)) <= Len(scores)
    /\ Len(top_indices) < topk_k(top_k_filter, Len(scores))
    /\ \E i \in topk_candidates(scores, top_indices) :
           top_indices' = Append(top_indices, i)
    /\ UNCHANGED <<pc, caller, resume_text, internships, top_k_filter, scores,
                   encodeCalls, generateCalls, matches, raisedBy, merged, ui>>
    /\ UNCHANGED <<parseVars, db, ingestVars>>

\* torch.topk returns its k indices, or raises for a k beyond the length.
TopkDone ==
    /\ pc = "topk"
    /\ \/ topk_k(top_k_filter, Len(scores)) > Len(scores)
       \/ Len(top_indices) >= topk_k(top_k_filter, Len(scores))
    /\ IF topk_k(top_k_filter, Len(scores)) > Len(scores)
       THEN /\ raisedBy' = "topk"
            /\ pc' = "raised"
       ELSE /\ raisedBy' = raisedBy
            /\ pc' = "generate"
    /\ UNCHANGED <<caller, resume_text, internships, top_k_filter, scores,
                   top_indices, encodeCalls, generateCalls, matches, merged, ui>>
    /\ UNCHANGED <<parseVars, db, ingestVars>>

\* response = model.generate_content(prompt), then the parsing step.
Generate ==
    /\ pc = "generate"
    /\ generateCalls' = generateCalls + 1
    /\ \E response \in Replies :
         LET out == parse_response(response)
         IN  IF out.raised
             THEN /\ raisedBy' = "parse"
                  /\ pc' = "raised"
                  /\ matches' = matches
             ELSE /\ raisedBy' = raisedBy
                  /\ pc' = "returned"
                  /\ matches' = out.value
    /\ UNCHANGED <<caller, resume_text, internships, top_k_filter, scores,
                   top_indices, encodeCalls, merged, ui>>
    /\ UNCHANGED <<parseVars, db, ingestVars>>

\* model.generate_content raises (timeout, transport error): the call is
\* outside the try block of line 150.
GenerateFails ==
    /\ pc = "generate"
    /\ generateCalls' = generateCalls + 1
    /\ raisedBy' = "generate"
    /\ pc' = "raised"
    /\ UNCHANGED <<caller, resume_text, internships, top_k_filter, scores,
                   top_indices, encodeCalls, matches, merged, ui>>
    /\ UNCHANGED <<parseVars, db, ingestVars>>

\* ------------------------------------------------------------------ the handler
\* pd.DataFrame(matches).merge(all_jobs_df, left_on="job_id", right_on="id",
\* how="left"): every match is kept, in order, with the listing of its job_id
\* when there is one (document ids are unique).
Row(tok, corpus) ==
    [entry |-> tok,
     joined |-> Obj(tok).has_id /\ \E i \in 1..Len(corpus) : corpus[i] = Obj(tok).job_id]

merge(items, corpus) == [i \in 1..Len(items) |-> Row(items[i], corpus)]

\* Whether row a sorts at or before row b under
\* sort_values(by="match_score", ascending=False): higher scores first, rows
\* without a score (NaN) last.  Rows of equal score keep their order here;
\* pandas leaves their order open, and nothing below depends on it.
goes_before(a, b) ==
    \/ ~Obj(b.entry).has_score
    \/ /\ Obj(a.entry).has_score
       /\ Obj(a.entry).match_score >= Obj(b.entry).match_score

RECURSIVE sort_values(_)
sort_values(rows) ==
    IF rows = <<>> THEN <<>>
    ELSE LET n == Len(rows)
             front == sort_values(SubSeq(rows, 1, n - 1))
             x == rows[n]
             at == Cardinality({i \in 1..Len(front) : goes_before(front[i], x)})
         IN  SubSeq(front, 1, at) \o <<x>> \o SubSeq(front, at + 1, Len(front))

\* Whether the frame built from the matches can be merged and sorted: the
\* matches are a list of objects, some with a job_id (else the merge raises a
\* KeyError) and some with a match_score (else the sort does).
frame_ok(v) ==
    /\ v.kind = "list"
    /\ \A i \in 1..Len(v.items) : v.items[i] \in ObjTokens
    /\ \E i \in 1..Len(v.items) : Obj(v.items[i]).has_id
    /\ \E i \in 1..Len(v.items) : Obj(v.items[i]).has_score

\* if matches: merge, sort, render every row; else: st.warning(...)
Present ==
    /\ pc = "returned"
    /\ caller = "handler"
    /\ pc' = "shown"
    /\ IF ~Truthy(matches)
       THEN /\ ui' = "warning"
            /\ UNCHANGED <<merged, raisedBy>>
       ELSE IF frame_ok(matches)
       THEN /\ merged' = sort_values(merge(matches.items, internships))
            /\ ui' = "results"
            /\ UNCHANGED raisedBy
       ELSE /\ ui' = "exception"
            /\ raisedBy' = "handler"
            /\ UNCHANGED merged
    /\ UNCHANGED <<caller, resume_text, internships, top_k_filter, scores,
                   top_indices, encodeCalls, generateCalls, matches>>
    /\ UNCHANGED <<parseVars, db, ingestVars>>

\* ------------------------------------------------------------------ update_internships
\* Every sighting inserts, with no look-up of the link.
existing_none(store, link) == {}

\* existing = db.collection("internships").where("link", "==", link).get()
existing(store, link) == {d \in store : d.link = link}

\* existing[0].id: the query returns documents in the order of their ids.
first_id(docs) == CHOOSE i \in {d.id : d \in docs} : \A d \in docs : i <= d.id

\* One row of jobs_df: look up the link, then add(data) or update(data).
Sighting ==
    /\ seen < MaxSightings
    /\ \E link \in Links, title \in Titles :
         IF existing(db, link) = {}
         THEN /\ db' = db \cup {Doc(nextId, link, title, now)}
              /\ nextId' = nextId + 1
              /\ log' = "added"
         ELSE /\ db' = {IF d.id = first_id(existing(db, link))
                        THEN Doc(d.id, link, title, now)
                        ELSE d : d \in db}
              /\ nextId' = nextId
              /\ log' = "updated"
    /\ now' = now + 1
    /\ seen' = seen + 1
    /\ UNCHANGED <<parseVars, runVars>>

\* A call on the way (the page fetch, the query, the write) raises: the
\* except clause of line 103 prints the error; the store is as it was.
SightingFails ==
    /\ seen < MaxSightings
    /\ log' = "error"
    /\ now' = now + 1
    /\ seen' = seen + 1
    /\ UNCHANGED <<db, nextId>>
    /\ UNCHANGED <<parseVars, runVars>>

\* ------------------------------------------------------------------ specifications
ParseIdle ==
    /\ body = <<>>
    /\ tag = <<>>
    /\ plainResult = NotRun
    /\ fencedResult = NotRun
    /\ blockedResult = NotRun

RunIdle ==
    /\ pc = "idle"
    /\ caller = "none"
    /\ resume_text = ""
    /\ internships = <<>>
    /\ top_k_filter = TopKDefault
    /\ scores = <<>>
    /\ top_indices = <<>>
    /\ encodeCalls = 0
    /\ generateCalls = 0
    /\ matches = EmptyList
    /\ raisedBy = "none"
    /\ merged = <<>>
    /\ ui = "none"

IngestIdle ==
    /\ now = MaxCorpus + 1
    /\ nextId = MaxCorpus + 1
    /\ seen = 0
    /\ log = "none"

\* The page: the store holds 0..MaxCorpus listings.
Init ==
    /\ ParseIdle
    /\ RunIdle
    /\ IngestIdle
    /\ \E n \in 0..MaxCorpus : db = Store(n)

Next ==
    \/ UploadResume
    \/ ClickFind
    \/ CallDirect
    \/ Encode
    \/ EncodeFails
    \/ TopkSelect
    \/ TopkDone
    \/ Generate
    \/ GenerateFails
    \/ Present

Spec == Init /\ [][Next]_vars

\* The scraper: the store starts with at most one document per link.
InitIngest ==
    /\ ParseIdle
    /\ RunIdle
    /\ \E held \in SUBSET Links :
         /\ db = {Doc(l, l, 1, l) : l \in held}
         /\ nextId = MaxLinks + 1
         /\ now = MaxLinks + 1
    /\ seen = 0
    /\ log = "none"

NextIngest == Sighting \/ SightingFails

SpecIngest == InitIngest /\ [][NextIngest]_vars

\* The parsing step alone, on every enumerated reply, bare and fenced.
InitParse ==
    /\ body \in Bodies
    /\ tag \in Tags
    /\ plainResult = NotRun
    /\ fencedResult = NotRun
    /\ blockedResult = NotRun
    /\ RunIdle
    /\ IngestIdle
    /\ db = {}

ParsePlain ==
    /\ plainResult = NotRun
    /\ plainResult' = parse_response(TextResponse(body))
    /\ UNCHANGED <<body, tag, fencedResult, blockedResult>>
    /\ UNCHANGED <<db, runVars, ingestVars>>

ParseFenced ==
    /\ fencedResult = NotRun
    /\ fencedResult' = parse_response(TextResponse(Fence(tag, body)))
    /\ UNCHANGED <<body, tag, plainResult, blockedResult>>
    /\ UNCHANGED <<db, runVars, ingestVars>>

ParseBlocked ==
    /\ blockedResult = NotRun
    /\ blockedResult' = parse_response(BlockedResponse)
    /\ UNCHANGED <<body, tag, plainResult, fencedResult>>
    /\ UNCHANGED <<db, runVars, ingestVars>>

NextParse == ParsePlain \/ ParseFenced \/ ParseBlocked

SpecParse == InitParse /\ [][NextParse]_vars

\* ================================================================== claims
\* ------------------------------------------------------------------ C1
\* C1 (as claimed): when the call of the reasoning model fails, the caller of
\* get_best_matches still receives a list; the error does not reach it.
C1_RankerFailureContained ==
    raisedBy = "generate" =>
        /\ pc \in {"returned", "shown"}
        /\ matches.kind = "list"

\* ------------------------------------------------------------------ C3
\* get_best_matches has been entered.
Entered == pc \notin {"idle", "uploaded"}

\* C3: with an empty corpus get_best_matches returns the empty list at once:
\* neither encode nor generate is called in that run.
C3_EmptyCorpusShortCircuits ==
    (Entered /\ internships = <<>>) =>
        /\ pc \in {"returned", "shown"}
        /\ matches = EmptyList
        /\ encodeCalls = 0
        /\ generateCalls = 0
        /\ raisedBy = "none"

\* The button was pressed over an empty store and the run is over.
C3_Witness ==
    /\ pc = "shown"
    /\ db = {}
    /\ internships = <<>>
    /\ matches = EmptyList
    /\ ui = "warning"

\* ------------------------------------------------------------------ C4
RowScore(r) == Obj(r.entry).match_score

\* C4 (as claimed): the rows shown are sorted by match score descending and
\* are at most TopN = 5, whatever the model replied.
C4_SortedTopFive ==
    ui = "results" =>
        /\ Len(merged) <= TopN
        /\ \A i, j \in 1..Len(merged) :
             (i < j /\ Obj(merged[i].entry).has_score /\ Obj(merged[j].entry).has_score)
                 => RowScore(merged[i]) >= RowScore(merged[j])

\* ------------------------------------------------------------------ C5
\* An entry of the model's output with its three fields, a score in 0..100
\* and the id of a listing of the shortlist.
ValidEntry(tok) ==
    /\ tok \in ObjTokens
    /\ Obj(tok).has_id /\ Obj(tok).has_score /\ Obj(tok).has_reason
    /\ Obj(tok).match_score \in 0..100
    /\ \E i \in 1..Len(top_indices) : internships[top_indices[i]] = Obj(tok).job_id

\* C5 (as claimed): every row shown is a valid entry, and an invalid entry of
\* the model's output is dropped alone: the valid ones are still shown.
C5_OnlyValidEntriesShown ==
    /\ ui = "results" => \A i \in 1..Len(merged) : ValidEntry(merged[i].entry)
    /\ (pc = "shown" /\ matches.kind = "list") =>
           \A i \in 1..Len(matches.items) :
               ValidEntry(matches.items[i]) =>
                   /\ ui = "results"
                   /\ \E j \in 1..Len(merged) : merged[j].entry = matches.items[i]

\* ------------------------------------------------------------------ C7
\* torch.topk has returned in this run.
Shortlisted ==
    /\ internships # <<>>
    /\ pc \in {"generate", "returned", "shown", "raised"}
    /\ raisedBy \notin {"encode", "topk"}

\* C7: for a corpus of n >= 1 listings and K >= 1 the similarity filter
\* returns min(K, n) listings, none twice, by score descending, and each
\* returned listing scores at least as high as each one left out.
C7_TopK ==
    Shortlisted =>
        /\ Len(top_indices) = Min(top_k_filter, Len(internships))
        /\ Len(filtered_internships) = Len(top_indices)
        /\ \A i, j \in 1..Len(top_indices) :
             i < j => /\ top_indices[i] # top_indices[j]
                      /\ filtered_internships[i] # filtered_internships[j]
                      /\ scores[top_indices[i]] >= scores[top_indices[j]]
        /\ \A i \in 1..Len(top_indices) : \A x \in 1..Len(scores) :
             (\A j \in 1..Len(top_indices) : top_indices[j] # x)
                 => scores[top_indices[i]] >= scores[x]

\* K = 2 of 3 listings with three different scores, the lowest left out.
C7_Witness ==
    /\ Shortlisted
    /\ Len(internships) = 3
    /\ top_k_filter = 2
    /\ Len(top_indices) = 2
    /\ scores[1] < scores[2]
    /\ scores[2] < scores[3]

\* ------------------------------------------------------------------ C2
\* C2: for every reply text that is no JSON (prose, a truncated array, an
\* array with a trailing comma), bare or inside a fenced block, the parsing
\* step returns the empty list and raises nothing.
C2_MalformedGivesEmpty ==
    body \in MalformedTexts =>
        /\ plainResult \in {NotRun, Returned(EmptyList)}
        /\ fencedResult \in {NotRun, Returned(EmptyList)}

\* A trailing-comma array and a prose reply have been parsed to [].
C2_Witness ==
    /\ body \in TrailingCommaArrays \cup ProseTexts
    /\ plainResult = Returned(EmptyList)
    /\ fencedResult = Returned(EmptyList)

\* ------------------------------------------------------------------ C6
\* C6 (as claimed): when the reply is JSON whose top-level value is no array,
\* the parsing step returns the empty list.
C6_NonArrayGivesEmpty ==
    (body \in NonArrayTexts /\ plainResult # NotRun) =>
        plainResult = Returned(EmptyList)

TagStripped == \A i \in 1..Len(tag) : tag[i] \in {"j", "s", "o", "n"}

DocsOfLink(store, l) == {d \in store : d.link = l}
IdsOf(store) == {d.id : d \in store}

OnePerLink == \A l \in Links : Cardinality(DocsOfLink(db, l)) <= 1

\* What one step of update_internships may do to the store.
C9_Step ==
    /\ \A d \in db : \E e \in db' : e.id = d.id /\ e.link = d.link
    /\ Cardinality(IdsOf(db')) = Cardinality(db')
    /\ \A l \in Links :
         IF DocsOfLink(db, l) = {}
         THEN /\ Cardinality(DocsOfLink(db', l)) <= 1
              /\ IdsOf(DocsOfLink(db', l)) \cap IdsOf(db) = {}
         ELSE IdsOf(DocsOfLink(db', l)) = IdsOf(DocsOfLink(db, l))
    /\ (seen' # seen /\ log' = "added") =>
           /\ Cardinality(db') = Cardinality(db) + 1
           /\ \E d \in db' \ db : DocsOfLink(db, d.link) = {}
    /\ (seen' # seen /\ log' = "updated") =>
           /\ IdsOf(db') = IdsOf(db)
           /\ \E d \in db' : d.created_at = now /\ DocsOfLink(db, d.link) # {}
    /\ (seen' # seen /\ log' = "error") => db' = db

\* C9: from a store with at most one document per link, every sighting of a
\* link without a document inserts one document, every sighting of a link
\* with a document updates it under its id; the store keeps at most one
\* document per link, no id changes and no document is deleted.
C9_UpsertByLink == []OnePerLink /\ [][C9_Step]_vars

\* A link was inserted and then updated under the id it was given.
C9_Witness ==
    /\ log = "updated"
    /\ \E d \in db : d.id > MaxLinks /\ d.created_at = now - 1 /\ d.title = 2
    /\ Cardinality(db) = MaxLinks

\* ------------------------------------------------------------------ C10
\* C10 (as claimed): with an empty resume text and a non-empty corpus the run
\* returns the empty list without calling encode or generate, raising nothing.
C10_EmptyQueryShortCircuits ==
    (Entered /\ resume_text = "" /\ internships # <<>>) =>
        /\ pc \in {"returned", "shown"}
        /\ matches = EmptyList
        /\ encodeCalls = 0
        /\ generateCalls = 0

====
